---- MODULE Spec2Model ----
(***************************************************************************)
(* AdmitGuard: the rule evaluator (validateField), the exception gate      *)
(* (checkRationale), the submission gate (canSubmit) and the form / audit  *)
(* log state machine of App.tsx.                                           *)
(*                                                                         *)
(* JavaScript values are records [t, k, n, s, b]: t is the typeof tag,     *)
(* k the kind of a number ("fin", "nan", "+inf", "-inf"), n its integer    *)
(* value, s the characters of a string (a sequence of one-character        *)
(* strings) and b the value of a boolean.                                  *)
(***************************************************************************)
EXTENDS Integers, Sequences, FiniteSets, TLC

\* ------------------------------------------------------------------------
\* JavaScript values and the language operations the code relies on
\* ------------------------------------------------------------------------
Undefined == [t |-> "undefined", k |-> "", n |-> 0, s |-> <<>>, b |-> FALSE]

Null == [t |-> "null", k |-> "", n |-> 0, s |-> <<>>, b |-> FALSE]

Str(chars) == [t |-> "string", k |-> "", n |-> 0, s |-> chars, b |-> FALSE]

Num(i) == [t |-> "number", k |-> "fin", n |-> i, s |-> <<>>, b |-> FALSE]

NaN == [t |-> "number", k |-> "nan", n |-> 0, s |-> <<>>, b |-> FALSE]

Infinity == [t |-> "number", k |-> "+inf", n |-> 0, s |-> <<>>, b |-> FALSE]

NegInfinity == [t |-> "number", k |-> "-inf", n |-> 0, s |-> <<>>, b |-> FALSE]

Bool(x) == [t |-> "boolean", k |-> "", n |-> 0, s |-> <<>>, b |-> x]

EmptyString == Str(<<>>)

DigitChars == {"0", "1", "2", "3", "4", "5", "6", "7", "8", "9"}

DigitValue(c) ==
  CASE c = "0" -> 0 [] c = "1" -> 1 [] c = "2" -> 2 [] c = "3" -> 3
    [] c = "4" -> 4 [] c = "5" -> 5 [] c = "6" -> 6 [] c = "7" -> 7
    [] c = "8" -> 8 [] c = "9" -> 9

AllDigits(chars) == \A i \in 1..Len(chars) : chars[i] \in DigitChars

RECURSIVE DigitsValue(_)
DigitsValue(chars) ==
  IF chars = <<>> THEN 0
  ELSE 10 * DigitsValue(SubSeq(chars, 1, Len(chars) - 1)) + DigitValue(chars[Len(chars)])

\* value === other
StrictEquals(a, c) == a = c /\ ~(a.t = "number" /\ a.k = "nan")

\* the truthiness test of `if (v)`, `!v`, `a || c`
Truthy(v) ==
  CASE v.t = "undefined" -> FALSE
    [] v.t = "null" -> FALSE
    [] v.t = "boolean" -> v.b
    [] v.t = "string" -> Len(v.s) > 0
    [] v.t = "number" -> ~(v.k = "nan" \/ (v.k = "fin" /\ v.n = 0))

\* a || c
OrElse(a, c) == IF Truthy(a) THEN a ELSE c

\* the number a digit string denotes; one of ten digits or more is clipped to
\* 10^9, which lies beyond every bound a rule here compares with
Magnitude(chars) == IF Len(chars) > 9 THEN 1000000000 ELSE DigitsValue(chars)

\* Number(string) for the grammar  [+-]? digit+  and the empty string; every
\* other text is not a number.
StringToNumber(chars) ==
  IF chars = <<>> THEN Num(0)
  ELSE IF AllDigits(chars) THEN Num(Magnitude(chars))
  ELSE IF Len(chars) > 1 /\ chars[1] = "-" /\ AllDigits(Tail(chars)) THEN Num(0 - Magnitude(Tail(chars)))
  ELSE IF Len(chars) > 1 /\ chars[1] = "+" /\ AllDigits(Tail(chars)) THEN Num(Magnitude(Tail(chars)))
  ELSE NaN

\* Number(v)
ToNumber(v) ==
  CASE v.t = "undefined" -> NaN
    [] v.t = "null" -> Num(0)
    [] v.t = "boolean" -> IF v.b THEN Num(1) ELSE Num(0)
    [] v.t = "number" -> v
    [] v.t = "string" -> StringToNumber(v.s)

\* x < y on numbers: every comparison with NaN is false
NumLess(x, y) ==
  CASE x.k = "nan" \/ y.k = "nan" -> FALSE
    [] x.k = "-inf" -> y.k # "-inf"
    [] x.k = "+inf" -> FALSE
    [] y.k = "-inf" -> FALSE
    [] y.k = "+inf" -> TRUE
    [] OTHER -> x.n < y.n

\* a < c and a > c where the left operand is a number (the right one is coerced)
Less(a, c) == NumLess(ToNumber(a), ToNumber(c))

Greater(a, c) == NumLess(ToNumber(c), ToNumber(a))

\* obj[key] of a JavaScript object: undefined when the key is absent
Get(obj, key) == IF key \in DOMAIN obj THEN obj[key] ELSE Undefined

\* { ...obj, [key]: val }
Put(obj, key, val) == [x \in DOMAIN obj \cup {key} |-> IF x = key THEN val ELSE obj[x]]

\* variant: only the first element of the array is compared
Includes_FirstOnly(arr, v) == Len(arr) > 0 /\ arr[1] = v

\* array.includes(v): SameValueZero, under which NaN is found
Includes(arr, v) == \E i \in 1..Len(arr) : arr[i] = v

\* text.includes(needle) on strings
Contains(text, needle) ==
  \E i \in 0..(Len(text) - Len(needle)) : SubSeq(text, i + 1, i + Len(needle)) = needle

UpperChars == <<"A", "B", "C", "D", "E", "F", "G", "H", "I", "J", "K", "L", "M", "N", "O", "P", "Q", "R", "S", "T", "U", "V", "W", "X", "Y", "Z">>

LowerChars == <<"a", "b", "c", "d", "e", "f", "g", "h", "i", "j", "k", "l", "m", "n", "o", "p", "q", "r", "s", "t", "u", "v", "w", "x", "y", "z">>

\* text.toLowerCase()
ToLowerCase(text) ==
  [i \in 1..Len(text) |->
     IF \E j \in 1..26 : UpperChars[j] = text[i]
     THEN LowerChars[CHOOSE j \in 1..26 : UpperChars[j] = text[i]]
     ELSE text[i]]

\* ------------------------------------------------------------------------
\* Regular expressions used by the evaluator and the shipped schema
\* ------------------------------------------------------------------------
WhitespaceChars == {" ", "\t", "\n"}

\* /[0-9]/.test(chars)
HasDigit(chars) == \E i \in 1..Len(chars) : chars[i] \in DigitChars

\* /^[^\s@]+@[^\s@]+\.[^\s@]+$/.test(chars)
EmailRegexTest(chars) ==
  \E at \in 2..Len(chars) :
    /\ chars[at] = "@"
    /\ \A i \in 1..Len(chars) : chars[i] \notin WhitespaceChars /\ (chars[i] = "@" => i = at)
    /\ \E dot \in (at + 2)..(Len(chars) - 1) : chars[dot] = "."

PhonePattern == "^[6-9]\\d{9}$"

AadhaarPattern == "^\\d{12}$"

NoNumbersPattern == "^[^0-9]*$"

\* new RegExp(pattern).test(chars), for the patterns the schemas use
RegExpTest(pattern, chars) ==
  CASE pattern = PhonePattern ->
         Len(chars) = 10 /\ chars[1] \in {"6", "7", "8", "9"} /\ AllDigits(chars)
    [] pattern = AadhaarPattern -> Len(chars) = 12 /\ AllDigits(chars)
    [] pattern = NoNumbersPattern -> ~HasDigit(chars)

\* ------------------------------------------------------------------------
\* Dates: new Date(value) and date-fns differenceInYears, at day granularity
\* ------------------------------------------------------------------------
InvalidDate == [ok |-> FALSE, y |-> 0, m |-> 0, d |-> 0]

Date(y, m, d) == [ok |-> TRUE, y |-> y, m |-> m, d |-> d]

IsLeapYear(y) == (y % 4 = 0 /\ y % 100 # 0) \/ y % 400 = 0

DaysInMonth(y, m) ==
  IF m = 2 THEN (IF IsLeapYear(y) THEN 29 ELSE 28)
  ELSE IF m \in {4, 6, 9, 11} THEN 30 ELSE 31

\* Date.parse of the ISO date forms YYYY, YYYY-MM and YYYY-MM-DD; any other
\* text is an Invalid Date.
ParseDate(chars) ==
  LET yy == DigitsValue(SubSeq(chars, 1, 4))
      mm == DigitsValue(SubSeq(chars, 6, 7))
      dd == DigitsValue(SubSeq(chars, 9, 10))
  IN  IF Len(chars) = 4 /\ AllDigits(chars) THEN Date(yy, 1, 1)
      ELSE IF /\ Len(chars) = 7 /\ chars[5] = "-"
              /\ AllDigits(SubSeq(chars, 1, 4)) /\ AllDigits(SubSeq(chars, 6, 7))
              /\ mm \in 1..12
           THEN Date(yy, mm, 1)
      ELSE IF /\ Len(chars) = 10 /\ chars[5] = "-" /\ chars[8] = "-"
              /\ AllDigits(SubSeq(chars, 1, 4)) /\ AllDigits(SubSeq(chars, 6, 7))
              /\ AllDigits(SubSeq(chars, 9, 10))
              /\ mm \in 1..12 /\ dd \in 1..DaysInMonth(yy, mm)
           THEN Date(yy, mm, dd)
      ELSE InvalidDate

\* new Date(value): a string is parsed, a number or boolean is a count of
\* milliseconds from 1970-01-01 (the values drawn here stay within that day)
NewDate(value) ==
  CASE value.t = "string" -> ParseDate(value.s)
    [] value.t = "number" -> IF value.k = "fin" THEN Date(1970, 1, 1) ELSE InvalidDate
    [] value.t = "boolean" -> Date(1970, 1, 1)
    [] value.t = "null" -> Date(1970, 1, 1)
    [] value.t = "undefined" -> InvalidDate

\* the month and day of `a` fall before those of `c`
EarlierInYear(a, c) == a.m < c.m \/ (a.m = c.m /\ a.d < c.d)

\* differenceInYears(later, earlier): completed years, NaN for an Invalid Date
differenceInYears(later, earlier) ==
  IF ~later.ok \/ ~earlier.ok THEN NaN
  ELSE IF later.y > earlier.y \/ (later.y = earlier.y /\ ~EarlierInYear(later, earlier))
       THEN Num(later.y - earlier.y - (IF EarlierInYear(later, earlier) THEN 1 ELSE 0))
       ELSE Num(0 - (earlier.y - later.y - (IF EarlierInYear(earlier, later) THEN 1 ELSE 0)))

\* ------------------------------------------------------------------------
\* Rule schema (config/rules.ts)
\* ------------------------------------------------------------------------
\* an absent message / an error of null
MsgUndefined == "<undefined>"

MsgNull == "<null>"

\* a || c on messages
MsgOrElse(a, c) == IF a \in {MsgUndefined, MsgNull, ""} THEN c ELSE a

\* ValidationRule with every optional property absent
ValidationRule ==
  [type |-> "", message |-> MsgUndefined, value |-> Undefined, pattern |-> "",
   min |-> Undefined, max |-> Undefined, checkStorage |-> FALSE,
   blockSubmission |-> FALSE, hasConditions |-> FALSE, conditions |-> <<>>]

\* one element of ValidationRule.conditions with every optional property absent
Condition ==
  [when |-> "", is |-> Undefined, hasIn |-> FALSE, in |-> <<>>, requires |-> "",
   min |-> Undefined, max |-> Undefined, message |-> MsgUndefined]

Rule(type, message) == [ValidationRule EXCEPT !.type = type, !.message = message]

\* FieldConfig; an absent rationaleKeywords is the empty list (the code treats
\* the two alike), an absent rationaleMinLength is Undefined
FieldConfig(id, category, validations, keywords, minLength) ==
  [id |-> id, category |-> category, validations |-> validations,
   rationaleKeywords |-> keywords, rationaleMinLength |-> minLength]

\* rationaleKeywords of the four soft fields
RationaleKeywords ==
  << <<"a", "p", "p", "r", "o", "v", "e", "d", " ", "b", "y">>,
     <<"s", "p", "e", "c", "i", "a", "l", " ", "c", "a", "s", "e">>,
     <<"d", "o", "c", "u", "m", "e", "n", "t", "a", "t", "i", "o", "n", " ", "p", "e", "n", "d", "i", "n", "g">>,
     <<"w", "a", "i", "v", "e", "r", " ", "g", "r", "a", "n", "t", "e", "d">> >>

Cleared == Str(<<"C", "l", "e", "a", "r", "e", "d">>)

Waitlisted == Str(<<"W", "a", "i", "t", "l", "i", "s", "t", "e", "d">>)

Rejected == Str(<<"R", "e", "j", "e", "c", "t", "e", "d">>)

Percentage == Str(<<"p", "e", "r", "c", "e", "n", "t", "a", "g", "e">>)

Cgpa == Str(<<"c", "g", "p", "a">>)

\* rulesConfig.fields
rulesConfigFields ==
  << FieldConfig("fullName", "strict",
       << Rule("required", "Full name is required"),
          [Rule("minLength", "Name must be at least 2 characters") EXCEPT !.value = Num(2)],
          [Rule("noNumbers", "Name cannot contain numbers") EXCEPT !.pattern = NoNumbersPattern] >>,
       <<>>, Undefined),
     FieldConfig("email", "strict",
       << Rule("required", "Email is required"),
          Rule("emailFormat", "Enter a valid email address (e.g., name@company.com)"),
          [Rule("unique", "This email is already registered") EXCEPT !.checkStorage = TRUE] >>,
       <<>>, Undefined),
     FieldConfig("phone", "strict",
       << Rule("required", "Phone number is required"),
          [Rule("pattern", "Enter 10-digit Indian mobile number starting with 6-9")
             EXCEPT !.pattern = PhonePattern] >>,
       <<>>, Undefined),
     FieldConfig("dob", "soft",
       << Rule("required", "Date of birth is required"),
          [Rule("ageRange", "Candidate must be 18-35 years old")
             EXCEPT !.min = Num(18), !.max = Num(35)] >>,
       RationaleKeywords, Num(30)),
     FieldConfig("qualification", "strict",
       << Rule("required", "Please select a qualification") >>,
       <<>>, Undefined),
     FieldConfig("graduationYear", "soft",
       << Rule("required", "Graduation year is required"),
          [Rule("range", "Graduation year must be between 2015-2025")
             EXCEPT !.min = Num(2015), !.max = Num(2025)] >>,
       RationaleKeywords, Num(30)),
     FieldConfig("scoreValue", "soft",
       << Rule("required", "Score is required"),
          [Rule("conditional", MsgUndefined) EXCEPT
             !.hasConditions = TRUE,
             !.conditions =
               << [Condition EXCEPT !.when = "scoreType", !.is = Percentage,
                     !.min = Num(60), !.message = "Percentage must be >= 60%"],
                  [Condition EXCEPT !.when = "scoreType", !.is = Cgpa,
                     !.min = Num(6), !.max = Num(10),
                     !.message = "CGPA must be >= 6.0 on 10-point scale"] >>] >>,
       RationaleKeywords, Num(30)),
     FieldConfig("screeningScore", "soft",
       << Rule("required", "Screening score is required"),
          [Rule("range", "Score must be 0-100") EXCEPT !.min = Num(0), !.max = Num(100)],
          [Rule("minValue", "Minimum qualifying score is 40/100") EXCEPT !.value = Num(40)] >>,
       RationaleKeywords, Num(30)),
     FieldConfig("interviewStatus", "strict",
       << Rule("required", "Interview status is required"),
          [Rule("notEquals", MsgUndefined) EXCEPT !.value = Rejected, !.blockSubmission = TRUE] >>,
       <<>>, Undefined),
     FieldConfig("aadhaar", "strict",
       << Rule("required", "Aadhaar number is required"),
          [Rule("exactLength", "Aadhaar must be exactly 12 digits") EXCEPT !.value = Num(12)],
          [Rule("pattern", "Aadhaar must contain only numbers") EXCEPT !.pattern = AadhaarPattern] >>,
       <<>>, Undefined),
     FieldConfig("offerLetterSent", "strict",
       << [Rule("conditional", MsgUndefined) EXCEPT
             !.hasConditions = TRUE,
             !.conditions =
               << [Condition EXCEPT !.when = "offerLetterSent", !.is = Bool(TRUE),
                     !.requires = "interviewStatus", !.hasIn = TRUE,
                     !.in = <<Cleared, Waitlisted>>,
                     !.message = "Offer letter can only be sent if interview is Cleared or Waitlisted"] >>] >>,
       <<>>, Undefined) >>

\* rulesConfig.systemRules.maxExceptions
maxExceptions == 2

\* ------------------------------------------------------------------------
\* Rule evaluator (lib/validation: validateField)
\* ------------------------------------------------------------------------
\* the outcome of one rule: it passes, or it fails with the verdict's error
\* and blockSubmission
Pass == [fails |-> FALSE, error |-> MsgNull, blockSubmission |-> FALSE]

Fail(message, block) == [fails |-> TRUE, error |-> message, blockSubmission |-> block]

\* variant: a condition is applied whatever the field named in `when` holds
ConditionOutcome_AlwaysApplies(cond, rule, value, allData) ==
  LET reqValue == Get(allData, cond.requires)
      val == ToNumber(value)
      failure == Fail(MsgOrElse(cond.message, rule.message), FALSE)
  IN  IF cond.requires # "" /\ cond.hasIn /\ ~Includes(cond.in, reqValue) THEN failure
      ELSE IF cond.min # Undefined /\ Less(val, cond.min) THEN failure
      ELSE IF cond.max # Undefined /\ Greater(val, cond.max) THEN failure
      ELSE Pass

\* one iteration of `for (const cond of rule.conditions)`
ConditionOutcome(cond, rule, value, allData) ==
  LET whenValue == Get(allData, cond.when)
      applies == \/ (cond.is # Undefined /\ StrictEquals(whenValue, cond.is))
                 \/ (cond.hasIn /\ Includes(cond.in, whenValue))
      reqValue == Get(allData, cond.requires)
      val == ToNumber(value)
      failure == Fail(MsgOrElse(cond.message, rule.message), FALSE)
  IN  IF ~applies THEN Pass
      ELSE IF cond.requires # "" /\ cond.hasIn /\ ~Includes(cond.in, reqValue) THEN failure
      ELSE IF cond.min # Undefined /\ Less(val, cond.min) THEN failure
      ELSE IF cond.max # Undefined /\ Greater(val, cond.max) THEN failure
      ELSE Pass

\* variant: a conditional rule without a conditions list fails
ConditionalOutcome_NeedsConditions(rule, value, allData) ==
  LET failing == {i \in 1..Len(rule.conditions) :
                    ConditionOutcome(rule.conditions[i], rule, value, allData).fails}
  IN  IF ~rule.hasConditions THEN Fail(rule.message, FALSE)
      ELSE IF failing = {} THEN Pass
      ELSE ConditionOutcome(rule.conditions[CHOOSE i \in failing : \A j \in failing : i <= j],
                            rule, value, allData)

\* case 'conditional': the first condition that fails ends the rule
ConditionalOutcome(rule, value, allData) ==
  LET failing == {i \in 1..Len(rule.conditions) :
                    ConditionOutcome(rule.conditions[i], rule, value, allData).fails}
  IN  IF ~rule.hasConditions \/ failing = {} THEN Pass
      ELSE ConditionOutcome(rule.conditions[CHOOSE i \in failing : \A j \in failing : i <= j],
                            rule, value, allData)

\* case 'range'
RangeFails(rule, value) ==
  LET numValue == ToNumber(value)
  IN  Less(numValue, OrElse(rule.min, NegInfinity)) \/ Greater(numValue, OrElse(rule.max, Infinity))

\* case 'minValue'
MinValueFails(rule, value) == Less(ToNumber(value), OrElse(rule.value, Num(0)))

\* case 'ageRange'; now is the value of `new Date()`
AgeRangeFails(rule, value, now) ==
  /\ Truthy(value)
  /\ LET age == differenceInYears(now, NewDate(value))
     IN  Less(age, OrElse(rule.min, Num(0))) \/ Greater(age, OrElse(rule.max, Num(999)))

\* variant: every falsy value fails the rule
RequiredFails_Falsy(value) == ~Truthy(value)

\* case 'required'
RequiredFails(value) ==
  value = Undefined \/ value = Null \/ value = EmptyString \/ value = Bool(FALSE)

\* variant: the log is not consulted
UniqueFails_Never(rule, field, value, auditLog) == FALSE

\* case 'unique'
UniqueFails(rule, field, value, auditLog) ==
  /\ rule.checkStorage
  /\ value.t = "string"
  /\ \E i \in 1..Len(auditLog) : StrictEquals(Get(auditLog[i].formData, field.id), value)

\* case 'notEquals'
\* variant: the notEquals rule never fails
NotEqualsFails_Never(rule, value) == FALSE

NotEqualsFails(rule, value) == StrictEquals(value, rule.value)

\* the body of `switch (rule.type)` for one rule
RuleOutcome(rule, field, value, allData, auditLog, now) ==
  LET simple(fails) == IF fails THEN Fail(rule.message, FALSE) ELSE Pass
  IN  CASE rule.type = "required" -> simple(RequiredFails(value))
        [] rule.type = "minLength" ->
             simple(value.t = "string" /\ Less(Num(Len(value.s)), OrElse(rule.value, Num(0))))
        [] rule.type = "noNumbers" -> simple(value.t = "string" /\ HasDigit(value.s))
        [] rule.type = "emailFormat" -> simple(value.t = "string" /\ ~EmailRegexTest(value.s))
        [] rule.type = "unique" -> simple(UniqueFails(rule, field, value, auditLog))
        [] rule.type = "pattern" ->
             simple(value.t = "string" /\ rule.pattern # "" /\ ~RegExpTest(rule.pattern, value.s))
        [] rule.type = "ageRange" -> simple(AgeRangeFails(rule, value, now))
        [] rule.type = "range" -> simple(RangeFails(rule, value))
        [] rule.type = "minValue" -> simple(MinValueFails(rule, value))
        [] rule.type = "notEquals" ->
             IF NotEqualsFails(rule, value)
             THEN Fail(rule.message, rule.blockSubmission) ELSE Pass
        [] rule.type = "exactLength" ->
             simple(value.t = "string" /\ ~StrictEquals(Num(Len(value.s)), rule.value))
        [] rule.type = "conditional" -> ConditionalOutcome(rule, value, allData)
        [] OTHER -> Pass

\* variant: the loop runs to the end and the last failing rule is reported
validateField_LastFailing(field, value, allData, auditLog, now) ==
  LET isSoft == field.category = "soft"
      outcome(i) == RuleOutcome(field.validations[i], field, value, allData, auditLog, now)
      failing == {i \in 1..Len(field.validations) : outcome(i).fails}
  IN  IF failing = {}
      THEN [valid |-> TRUE, error |-> MsgNull, isSoft |-> isSoft, blockSubmission |-> FALSE]
      ELSE LET last == CHOOSE i \in failing : \A j \in failing : j <= i
           IN  [valid |-> FALSE, error |-> outcome(last).error, isSoft |-> isSoft,
                blockSubmission |-> outcome(last).blockSubmission]

\* validateField(field, value, allData, auditLog); now is the value `new Date()`
\* returns during the call
validateField(field, value, allData, auditLog, now) ==
  LET isSoft == field.category = "soft"
      outcome(i) == RuleOutcome(field.validations[i], field, value, allData, auditLog, now)
      failing == {i \in 1..Len(field.validations) : outcome(i).fails}
  IN  IF failing = {}
      THEN [valid |-> TRUE, error |-> MsgNull, isSoft |-> isSoft, blockSubmission |-> FALSE]
      ELSE LET first == CHOOSE i \in failing : \A j \in failing : i <= j
           IN  [valid |-> FALSE, error |-> outcome(first).error, isSoft |-> isSoft,
                blockSubmission |-> outcome(first).blockSubmission]

\* ------------------------------------------------------------------------
\* Exception gate (lib/validation: checkRationale)
\* ------------------------------------------------------------------------
checkRationale(field, rationale) ==
  IF rationale = <<>> \/ Less(Num(Len(rationale)), OrElse(field.rationaleMinLength, Num(30)))
  THEN [valid |-> FALSE, error |-> "Rationale must be at least rationaleMinLength characters."]
  ELSE IF /\ Len(field.rationaleKeywords) > 0
          /\ ~\E i \in 1..Len(field.rationaleKeywords) :
                Contains(ToLowerCase(rationale), ToLowerCase(field.rationaleKeywords[i]))
       THEN [valid |-> FALSE, error |-> "Rationale must include one of the following keywords"]
       ELSE [valid |-> TRUE, error |-> MsgNull]

\* ------------------------------------------------------------------------
\* Application state (App.tsx)
\* ------------------------------------------------------------------------
VARIABLES
  fields,            \* rulesConfig.fields, the schema in force
  formData,          \* state.formData
  exceptions,        \* state.exceptions
  auditLog,          \* state.auditLog, newest entry first
  currentView,       \* state.currentView
  theme,             \* state.theme
  validationErrors,  \* the validationErrors state
  isSubmitting,      \* the isSubmitting state
  showConfirmModal,  \* the showConfirmModal state
  effectPending,     \* the validation effect is due: formData or auditLog changed
  timer,             \* the setTimeout of handleSubmit and the values its closure holds
  nextId,            \* stands for crypto.randomUUID(): the next unused entry id
  today,             \* the date `new Date()` returns
  ops                \* number of edits, toggles and navigation clicks so far

vars == <<fields, formData, exceptions, auditLog, currentView, theme, validationErrors,
          isSubmitting, showConfirmModal, effectPending, timer, nextId, today, ops>>

\* bounds of the exploration
MaxOps == 3

MaxLog == 2

\* {} as a JavaScript object
EmptyObject == <<>>

\* { scoreType: 'percentage', offerLetterSent: false }
DefaultFormData ==
  [x \in {"scoreType", "offerLetterSent"} |->
     IF x = "scoreType" THEN Percentage ELSE Bool(FALSE)]

NoTimer ==
  [set |-> FALSE, formData |-> EmptyObject, exceptions |-> EmptyObject,
   exceptionCount |-> 0, isFlagged |-> FALSE]

\* variant: only the soft fields of the schema are found
HasField_SoftOnly(id) ==
  \E i \in 1..Len(fields) : fields[i].id = id /\ fields[i].category = "soft"

\* rulesConfig.fields.find(f => f.id === id)
HasField(id) == \E i \in 1..Len(fields) : fields[i].id = id

FindField(id) ==
  fields[CHOOSE i \in 1..Len(fields) :
           fields[i].id = id /\ \A j \in 1..Len(fields) : fields[j].id = id => i <= j]

\* exceptions[id]?.active
IsActive(excs, id) == id \in DOMAIN excs /\ excs[id].active

\* variant: every exception of the map is counted
activeExceptionsCount_AllKeys == Cardinality(DOMAIN exceptions)

\* Object.values(state.exceptions).filter(e => e.active).length
activeExceptionsCount == Cardinality({id \in DOMAIN exceptions : exceptions[id].active})

\* variant: flagged from maxExceptions active exceptions on
isFlagged_AtLeast == activeExceptionsCount >= maxExceptions

isFlagged == activeExceptionsCount > maxExceptions

\* the callback of validationErrors.some(...) in canSubmit, for one entry
\* variant: the verdict's blockSubmission is not consulted
BlocksSubmission_NoBlockFlag(id) ==
  /\ HasField(id)
  /\ LET field == FindField(id)
         result == validationErrors[id]
     IN  \/ field.category = "strict" /\ ~result.valid
         \/ /\ field.category = "soft" /\ ~result.valid
            /\ \/ ~IsActive(exceptions, id)
               \/ ~checkRationale(field, exceptions[id].rationale).valid

BlocksSubmission(id) ==
  /\ HasField(id)
  /\ LET field == FindField(id)
         result == validationErrors[id]
     IN  \/ field.category = "strict" /\ ~result.valid
         \/ /\ field.category = "soft" /\ ~result.valid
            /\ \/ ~IsActive(exceptions, id)
               \/ ~checkRationale(field, exceptions[id].rationale).valid
         \/ result.blockSubmission

\* variant: an active exception excuses any blocking verdict
hasStrictErrors_Excusable ==
  \E id \in DOMAIN validationErrors : BlocksSubmission(id) /\ ~IsActive(exceptions, id)

hasStrictErrors == \E id \in DOMAIN validationErrors : BlocksSubmission(id)

\* variant: every falsy value counts as empty
IsEmptyValue_Falsy(val) == ~Truthy(val)

\* the value is undefined, null or ''
IsEmptyValue(val) == val = Undefined \/ val = Null \/ val = EmptyString

\* variant: a required field with an invalid verdict counts as missing
missingRequired_CountsInvalid ==
  \E i \in 1..Len(fields) :
    LET val == Get(formData, fields[i].id)
        isRequired == \E r \in 1..Len(fields[i].validations) :
                        fields[i].validations[r].type = "required"
    IN  isRequired /\ (IsEmptyValue(val) \/ fields[i].id \in DOMAIN validationErrors)

missingRequired ==
  \E i \in 1..Len(fields) :
    LET val == Get(formData, fields[i].id)
        isRequired == \E r \in 1..Len(fields[i].validations) :
                        fields[i].validations[r].type = "required"
    IN  isRequired /\ IsEmptyValue(val)

\* variant: the gate does not look for missing required fields
canSubmit_IgnoresMissing == ~hasStrictErrors

canSubmit == ~hasStrictErrors /\ ~missingRequired

\* the errors the validation effect computes from the current state
ComputedErrors ==
  LET result(i) == validateField(fields[i], Get(formData, fields[i].id), formData, auditLog, today)
      invalid == {i \in 1..Len(fields) : ~result(i).valid}
  IN  [id \in {fields[i].id : i \in invalid} |->
         result(CHOOSE i \in invalid :
                  fields[i].id = id /\ \A j \in invalid : fields[j].id = id => j <= i)]

\* ------------------------------------------------------------------------
\* Inputs of the exploration: the values typed or selected in the form
\* ------------------------------------------------------------------------
NameAl == Str(<<"A", "l">>)

EmailA == Str(<<"a", "@", "x", ".", "c">>)

EmailB == Str(<<"b", "@", "x", ".", "c">>)

EmailBad == Str(<<"a", "@", "x">>)

PhoneOk == Str(<<"9", "8", "7", "6", "5", "4", "3", "2", "1", "0">>)

DobOk == Str(<<"2", "0", "0", "0", "-", "0", "1", "-", "0", "1">>)

DobOld == Str(<<"1", "9", "8", "0", "-", "0", "1", "-", "0", "1">>)

QualBTech == Str(<<"B", ".", "T", "e", "c", "h">>)

Year2020 == Str(<<"2", "0", "2", "0">>)

Year2030 == Str(<<"2", "0", "3", "0">>)

Score75 == Str(<<"7", "5">>)

Screening50 == Str(<<"5", "0">>)

ScreeningMinus5 == Str(<<"-", "5">>)

AadhaarOk == Str(<<"1", "2", "3", "4", "5", "6", "7", "8", "9", "0", "1", "2">>)

\* the date of the session
Today == Date(2026, 6, 15)

\* 35 characters, holds the keyword "approved by" in mixed case
RationaleGood ==
  <<"A", "p", "p", "r", "o", "v", "e", "d", " ", "B", "y", " ", "t", "h", "e", " ", "d", "e",
    "a", "n", " ", "o", "f", " ", "a", "d", "m", "i", "s", "s", "i", "o", "n", "s", ".">>

\* 11 characters: the keyword alone, too short
RationaleShort == <<"a", "p", "p", "r", "o", "v", "e", "d", " ", "b", "y">>

Rationales == {RationaleGood, RationaleShort}

\* the values the user gives each input of the form
InputValues(id) ==
  CASE id = "fullName" -> {NameAl}
    [] id = "email" -> {EmailA, EmailB, EmailBad}
    [] id = "phone" -> {PhoneOk}
    [] id = "dob" -> {DobOk, DobOld, EmptyString}
    [] id = "qualification" -> {QualBTech}
    [] id = "graduationYear" -> {Year2020, Year2030}
    [] id = "scoreValue" -> {Score75}
    [] id = "scoreType" -> {Percentage, Cgpa}
    [] id = "screeningScore" -> {Screening50, ScreeningMinus5}
    [] id = "interviewStatus" -> {Cleared, Rejected, EmptyString}
    [] id = "aadhaar" -> {AadhaarOk}
    [] id = "offerLetterSent" -> {Bool(~Truthy(Get(formData, id)))}
    [] OTHER -> {}

\* the keys of a filled-in form: the ids of the shipped fields and scoreType
InputIds == {rulesConfigFields[i].id : i \in 1..Len(rulesConfigFields)} \cup {"scoreType"}

\* a form filled in completely and validly
CompleteFormData(email) ==
  [x \in InputIds |->
     CASE x = "fullName" -> NameAl
       [] x = "email" -> email
       [] x = "phone" -> PhoneOk
       [] x = "dob" -> DobOk
       [] x = "qualification" -> QualBTech
       [] x = "graduationYear" -> Year2020
       [] x = "scoreValue" -> Score75
       [] x = "scoreType" -> Percentage
       [] x = "screeningScore" -> Screening50
       [] x = "interviewStatus" -> Cleared
       [] x = "aadhaar" -> AadhaarOk
       [] x = "offerLetterSent" -> Bool(FALSE)]

\* the app state found in localStorage by a session that follows one in which
\* an entry was submitted and the next form was filled in
SavedState ==
  [formData |-> CompleteFormData(EmailB),
   exceptions |-> EmptyObject,
   auditLog |-> << [id |-> 0, timestamp |-> Today, formData |-> CompleteFormData(EmailA),
                    exceptions |-> EmptyObject, exceptionCount |-> 0, isFlagged |-> FALSE] >>,
   theme |-> "light"]

\* ------------------------------------------------------------------------
\* Operations of App.tsx
\* ------------------------------------------------------------------------
\* React runs the validation effect of a render before it handles the next
\* event, so no handler runs while the effect is due.
Idle == ~effectPending

\* the form is on screen and not covered by the confirmation modal
FormUsable == Idle /\ currentView = "form" /\ ~showConfirmModal

\* useState initialiser, nothing in localStorage
InitFresh ==
  /\ fields = rulesConfigFields
  /\ formData = DefaultFormData
  /\ exceptions = EmptyObject
  /\ auditLog = <<>>
  /\ currentView = "form"
  /\ theme = "light"
  /\ validationErrors = EmptyObject
  /\ isSubmitting = FALSE
  /\ showConfirmModal = FALSE
  /\ effectPending = TRUE
  /\ timer = NoTimer
  /\ nextId = 0
  /\ today = Today
  /\ ops = 0

\* useState initialiser, a saved state in localStorage
InitSaved ==
  /\ fields = rulesConfigFields
  /\ formData = SavedState.formData
  /\ exceptions = SavedState.exceptions
  /\ auditLog = SavedState.auditLog
  /\ currentView = "form"
  /\ theme = SavedState.theme
  /\ validationErrors = EmptyObject
  /\ isSubmitting = FALSE
  /\ showConfirmModal = FALSE
  /\ effectPending = TRUE
  /\ timer = NoTimer
  /\ nextId = Len(SavedState.auditLog)
  /\ today = Today
  /\ ops = 0

Init == InitFresh \/ InitSaved

\* variant: the effect also removes the rejected values from the record
ValidationEffect_DropsInvalid ==
  /\ effectPending
  /\ validationErrors' = ComputedErrors
  /\ formData' = [x \in DOMAIN formData \ DOMAIN ComputedErrors |-> formData[x]]
  /\ effectPending' = FALSE
  /\ UNCHANGED <<fields, exceptions, auditLog, currentView, theme, isSubmitting,
                 showConfirmModal, timer, nextId, today, ops>>

\* the "Real-time validation" effect
ValidationEffect ==
  /\ effectPending
  /\ validationErrors' = ComputedErrors
  /\ effectPending' = FALSE
  /\ UNCHANGED <<fields, formData, exceptions, auditLog, currentView, theme, isSubmitting,
                 showConfirmModal, timer, nextId, today, ops>>

handleInputChange(id, value) ==
  /\ FormUsable
  /\ ops < MaxOps
  /\ value # Get(formData, id)
  /\ formData' = Put(formData, id, value)
  /\ effectPending' = TRUE
  /\ ops' = ops + 1
  /\ UNCHANGED <<fields, exceptions, auditLog, currentView, theme, validationErrors,
                 isSubmitting, showConfirmModal, timer, nextId, today>>

\* variant: the exception button is rendered for every field that has an error
toggleException_AnyField(id) ==
  /\ FormUsable
  /\ ops < MaxOps
  /\ id \in DOMAIN validationErrors
  /\ exceptions' = Put(exceptions, id,
                       [active |-> ~IsActive(exceptions, id),
                        rationale |-> IF id \in DOMAIN exceptions
                                      THEN exceptions[id].rationale ELSE <<>>])
  /\ ops' = ops + 1
  /\ UNCHANGED <<fields, formData, auditLog, currentView, theme, validationErrors,
                 isSubmitting, showConfirmModal, effectPending, timer, nextId, today>>

\* the exception button is rendered for a soft field that has an error
toggleException(id) ==
  /\ FormUsable
  /\ ops < MaxOps
  /\ HasField(id) /\ FindField(id).category = "soft"
  /\ id \in DOMAIN validationErrors
  /\ exceptions' = Put(exceptions, id,
                       [active |-> ~IsActive(exceptions, id),
                        rationale |-> IF id \in DOMAIN exceptions
                                      THEN exceptions[id].rationale ELSE <<>>])
  /\ ops' = ops + 1
  /\ UNCHANGED <<fields, formData, auditLog, currentView, theme, validationErrors,
                 isSubmitting, showConfirmModal, effectPending, timer, nextId, today>>

\* the rationale textarea is rendered while the exception is active
handleRationaleChange(id, rationale) ==
  /\ FormUsable
  /\ ops < MaxOps
  /\ HasField(id) /\ FindField(id).category = "soft"
  /\ id \in DOMAIN validationErrors
  /\ IsActive(exceptions, id)
  /\ rationale # exceptions[id].rationale
  /\ exceptions' = Put(exceptions, id, [exceptions[id] EXCEPT !.rationale = rationale])
  /\ ops' = ops + 1
  /\ UNCHANGED <<fields, formData, auditLog, currentView, theme, validationErrors,
                 isSubmitting, showConfirmModal, effectPending, timer, nextId, today>>

\* "Review & Submit": disabled unless canSubmit()
OpenConfirmModal ==
  /\ FormUsable
  /\ canSubmit
  /\ showConfirmModal' = TRUE
  /\ UNCHANGED <<fields, formData, exceptions, auditLog, currentView, theme, validationErrors,
                 isSubmitting, effectPending, timer, nextId, today, ops>>

\* "Cancel & Edit"
CancelConfirmModal ==
  /\ Idle
  /\ showConfirmModal
  /\ showConfirmModal' = FALSE
  /\ UNCHANGED <<fields, formData, exceptions, auditLog, currentView, theme, validationErrors,
                 isSubmitting, effectPending, timer, nextId, today, ops>>

\* "Confirm & Enroll": starts the timer, whose callback holds this render's
\* formData, exceptions, activeExceptionsCount and isFlagged
handleSubmit ==
  /\ Idle
  /\ showConfirmModal
  /\ ~isSubmitting
  /\ Len(auditLog) < MaxLog
  /\ isSubmitting' = TRUE
  /\ timer' = [set |-> TRUE, formData |-> formData, exceptions |-> exceptions,
               exceptionCount |-> activeExceptionsCount, isFlagged |-> isFlagged]
  /\ UNCHANGED <<fields, formData, exceptions, auditLog, currentView, theme, validationErrors,
                 showConfirmModal, effectPending, nextId, today, ops>>

\* variant: the new entry is put at the end of the log
SubmitTimeout_Appends ==
  /\ Idle
  /\ timer.set
  /\ LET newEntry == [id |-> nextId, timestamp |-> today, formData |-> timer.formData,
                      exceptions |-> timer.exceptions,
                      exceptionCount |-> timer.exceptionCount, isFlagged |-> timer.isFlagged]
     IN  auditLog' = auditLog \o <<newEntry>>
  /\ formData' = DefaultFormData
  /\ exceptions' = EmptyObject
  /\ currentView' = "audit"
  /\ isSubmitting' = FALSE
  /\ showConfirmModal' = FALSE
  /\ timer' = NoTimer
  /\ nextId' = nextId + 1
  /\ effectPending' = TRUE
  /\ UNCHANGED <<fields, theme, validationErrors, today, ops>>

\* the callback of the setTimeout in handleSubmit
SubmitTimeout ==
  /\ Idle
  /\ timer.set
  /\ LET newEntry == [id |-> nextId, timestamp |-> today, formData |-> timer.formData,
                      exceptions |-> timer.exceptions,
                      exceptionCount |-> timer.exceptionCount, isFlagged |-> timer.isFlagged]
     IN  auditLog' = <<newEntry>> \o auditLog
  /\ formData' = DefaultFormData
  /\ exceptions' = EmptyObject
  /\ currentView' = "audit"
  /\ isSubmitting' = FALSE
  /\ showConfirmModal' = FALSE
  /\ timer' = NoTimer
  /\ nextId' = nextId + 1
  /\ effectPending' = TRUE
  /\ UNCHANGED <<fields, theme, validationErrors, today, ops>>

\* auditLog.filter(e => e.id !== id)
WithoutId(log, id) == SelectSeq(log, LAMBDA e : e.id # id)

deleteEntry(id) ==
  /\ Idle
  /\ currentView = "audit" /\ ~showConfirmModal
  /\ \E i \in 1..Len(auditLog) : auditLog[i].id = id
  /\ auditLog' = WithoutId(auditLog, id)
  /\ effectPending' = TRUE
  /\ UNCHANGED <<fields, formData, exceptions, currentView, theme, validationErrors,
                 isSubmitting, showConfirmModal, timer, nextId, today, ops>>

\* "Clear Log", confirmed
clearAllData ==
  /\ Idle
  /\ currentView = "audit" /\ ~showConfirmModal
  /\ auditLog # <<>>
  /\ auditLog' = <<>>
  /\ effectPending' = TRUE
  /\ UNCHANGED <<fields, formData, exceptions, currentView, theme, validationErrors,
                 isSubmitting, showConfirmModal, timer, nextId, today, ops>>

\* the navigation buttons
SetView(view) ==
  /\ Idle
  /\ ~showConfirmModal
  /\ ops < MaxOps
  /\ view # currentView
  /\ currentView' = view
  /\ ops' = ops + 1
  /\ UNCHANGED <<fields, formData, exceptions, auditLog, theme, validationErrors, isSubmitting,
                 showConfirmModal, effectPending, timer, nextId, today>>

\* the theme button
ToggleTheme ==
  /\ Idle
  /\ ~showConfirmModal
  /\ ops < MaxOps
  /\ theme' = IF theme = "light" THEN "dark" ELSE "light"
  /\ ops' = ops + 1
  /\ UNCHANGED <<fields, formData, exceptions, auditLog, currentView, validationErrors,
                 isSubmitting, showConfirmModal, effectPending, timer, nextId, today>>

Next ==
  \/ ValidationEffect
  \/ \E id \in InputIds : \E value \in InputValues(id) : handleInputChange(id, value)
  \/ \E id \in InputIds : toggleException(id)
  \/ \E id \in InputIds : \E rationale \in Rationales : handleRationaleChange(id, rationale)
  \/ OpenConfirmModal
  \/ CancelConfirmModal
  \/ handleSubmit
  \/ SubmitTimeout
  \/ \E id \in 0..MaxLog : deleteEntry(id)
  \/ clearAllData
  \/ \E view \in {"form", "audit", "dashboard"} : SetView(view)
  \/ ToggleTheme

Spec == Init /\ [][Next]_vars

\* ------------------------------------------------------------------------
\* The submission gate on its own: every schema of two fields, every set of
\* verdicts, exception map and record over them
\* ------------------------------------------------------------------------
GateIds == {"f1", "f2"}

\* a verdict left over from a field that is no longer in the schema
StaleId == "old"

NotRejectedRule == [Rule("notEquals", MsgUndefined) EXCEPT !.value = Rejected, !.blockSubmission = TRUE]

GateField(id, category, required) ==
  FieldConfig(id, category,
    IF required THEN <<Rule("required", "required"), NotRejectedRule>> ELSE <<NotRejectedRule>>,
    IF category = "soft" THEN RationaleKeywords ELSE <<>>,
    IF category = "soft" THEN Num(30) ELSE Undefined)

GateSchemas ==
  {<<GateField("f1", c1, r1), GateField("f2", c2, r2)>> :
     c1 \in {"strict", "soft"}, r1 \in BOOLEAN, c2 \in {"strict", "soft"}, r2 \in BOOLEAN}

GateValues(id) ==
  IF id = "f1" THEN {Null, EmptyString, Bool(FALSE), Num(0), NameAl} ELSE {EmptyString, NameAl}

GateExceptionStates(id) ==
  IF id = "f1"
  THEN {[active |-> TRUE, rationale |-> RationaleGood],
        [active |-> TRUE, rationale |-> RationaleShort],
        [active |-> FALSE, rationale |-> RationaleGood]}
  ELSE {[active |-> TRUE, rationale |-> RationaleGood]}

\* the maps from a subset of ids to the options of each id
Maps(ids, options(_)) ==
  UNION {{m \in [S -> UNION {options(id) : id \in S}] : \A id \in S : m[id] \in options(id)} :
           S \in SUBSET ids}

\* the verdict validateField returns for a failing field of the category
FailedVerdict(category, block) ==
  [valid |-> FALSE, error |-> "invalid", isSoft |-> category = "soft", blockSubmission |-> block]

GateInit ==
  /\ fields \in GateSchemas
  /\ \E blocks \in Maps(GateIds \cup {StaleId}, LAMBDA id : IF id = StaleId THEN {TRUE} ELSE BOOLEAN) :
       validationErrors =
         [id \in DOMAIN blocks |->
            FailedVerdict(IF id = StaleId THEN "strict" ELSE FindField(id).category, blocks[id])]
  /\ exceptions \in Maps(GateIds, GateExceptionStates)
  /\ formData \in Maps(GateIds, GateValues)
  /\ auditLog = <<>>
  /\ currentView = "form"
  /\ theme = "light"
  /\ isSubmitting = FALSE
  /\ showConfirmModal = FALSE
  /\ effectPending = FALSE
  /\ timer = NoTimer
  /\ nextId = 0
  /\ today = Today
  /\ ops = 0

GateNext == OpenConfirmModal \/ CancelConfirmModal

SpecGate == GateInit /\ [][GateNext]_vars

\* ------------------------------------------------------------------------
\* The evaluator on its own: a field "f1" under test, with one or two rules
\* drawn from a pool, next to a required strict field "f2"
\* ------------------------------------------------------------------------
RangeRule(min, max) == [Rule("range", "out of range") EXCEPT !.min = min, !.max = max]

\* the threshold of the pool's conditional rule applies when f2 holds "Al"
ConditionalRule ==
  [Rule("conditional", MsgUndefined) EXCEPT
     !.hasConditions = TRUE,
     !.conditions = << [Condition EXCEPT !.when = "f2", !.is = NameAl, !.min = Num(60),
                          !.message = "below the threshold"] >>]

EvalRules ==
  { Rule("required", "f1 is required"),
    [Rule("minLength", "at least 2 characters") EXCEPT !.value = Num(2)],
    RangeRule(Num(0), Num(100)),
    RangeRule(Num(-10), Num(0)),
    RangeRule(Num(10), Undefined),
    RangeRule(Undefined, Num(10)),
    RangeRule(Num(1), Num(5)),
    [Rule("minValue", "below the minimum") EXCEPT !.value = Num(40)],
    [Rule("notEquals", "must not be Al") EXCEPT !.value = NameAl],
    [Rule("pattern", "not a phone number") EXCEPT !.pattern = PhonePattern],
    ConditionalRule,
    Rule("conditional", "no conditions") }

\* the pool: each rule without and with blockSubmission
EvalRulePool == UNION {{r, [r EXCEPT !.blockSubmission = TRUE]} : r \in EvalRules}

\* the rules that come first in a list of two
EvalFirstRules ==
  { Rule("required", "f1 is required"),
    [Rule("minLength", "at least 2 characters") EXCEPT !.value = Num(2)],
    RangeRule(Num(0), Num(100)),
    Rule("conditional", "no conditions") }

EvalRuleLists ==
  {<<r>> : r \in EvalRulePool} \cup {<<r1, r2>> : r1 \in EvalFirstRules, r2 \in EvalRulePool}

EvalValues ==
  { Null, EmptyString, Bool(FALSE), Bool(TRUE), Num(0), Num(-5), Num(50), Num(150),
    Str(<<"a", "b", "c">>), ScreeningMinus5, Screening50, NameAl, Str(<<"A">>), PhoneOk }

EvalSchemas ==
  {<< FieldConfig("f1", category, rules,
                  IF category = "soft" THEN RationaleKeywords ELSE <<>>,
                  IF category = "soft" THEN Num(30) ELSE Undefined),
      FieldConfig("f2", "strict", <<Rule("required", "f2 is required")>>, <<>>, Undefined) >> :
     category \in {"strict", "soft"}, rules \in EvalRuleLists}

EvalInit ==
  /\ fields \in EvalSchemas
  /\ formData \in Maps({"f1", "f2"},
                       LAMBDA id : IF id = "f1" THEN EvalValues ELSE {NameAl, EmptyString})
  /\ "f2" \in DOMAIN formData
  /\ exceptions \in Maps({"f1"}, LAMBDA id : {[active |-> TRUE, rationale |-> RationaleGood]})
  /\ auditLog = <<>>
  /\ validationErrors = EmptyObject
  /\ currentView = "form"
  /\ theme = "light"
  /\ isSubmitting = FALSE
  /\ showConfirmModal = FALSE
  /\ effectPending = TRUE
  /\ timer = NoTimer
  /\ nextId = 0
  /\ today = Today
  /\ ops = 0

EvalNext == ValidationEffect \/ OpenConfirmModal \/ CancelConfirmModal

SpecEval == EvalInit /\ [][EvalNext]_vars

\* ------------------------------------------------------------------------
\* The validation effect over fields with a unique rule and a history
\* ------------------------------------------------------------------------
UniqueRule(checkStorage) ==
  [Rule("unique", "already in the log") EXCEPT !.checkStorage = checkStorage]

UniqueRuleLists ==
  { <<UniqueRule(TRUE)>>, <<UniqueRule(FALSE)>>,
    <<Rule("required", "f1 is required"), UniqueRule(TRUE)>> }

\* values of every type for the field under the unique rule
UniqueValues == {EmailA, EmailB, Num(50), Num(0), Bool(TRUE), Null}

\* an audit-log entry that recorded the value v (or nothing) under f1
LoggedEntry(id, record) ==
  [id |-> id, timestamp |-> Today, formData |-> record, exceptions |-> EmptyObject,
   exceptionCount |-> 0, isFlagged |-> FALSE]

UniqueRecords == Maps({"f1"}, LAMBDA id : {EmailA, Num(50), Bool(TRUE), Null})

UniqueLogs ==
  {<<>>} \cup {<<LoggedEntry(0, r)>> : r \in UniqueRecords}
         \cup {<<LoggedEntry(1, r1), LoggedEntry(0, r2)>> : r1, r2 \in UniqueRecords}

UniqueInit ==
  /\ fields \in {<< FieldConfig("f1", "strict", rules, <<>>, Undefined),
                    FieldConfig("f2", "strict", <<Rule("required", "f2 is required")>>,
                                <<>>, Undefined) >> : rules \in UniqueRuleLists}
  /\ formData \in Maps({"f1", "f2"},
                       LAMBDA id : IF id = "f1" THEN UniqueValues ELSE {NameAl})
  /\ "f2" \in DOMAIN formData
  /\ exceptions = EmptyObject
  /\ auditLog \in UniqueLogs
  /\ validationErrors = EmptyObject
  /\ currentView = "form"
  /\ theme = "light"
  /\ isSubmitting = FALSE
  /\ showConfirmModal = FALSE
  /\ effectPending = TRUE
  /\ timer = NoTimer
  /\ nextId = Len(auditLog)
  /\ today = Today
  /\ ops = 0

UniqueNext == ValidationEffect \/ OpenConfirmModal \/ CancelConfirmModal

SpecUnique == UniqueInit /\ [][UniqueNext]_vars

\* ------------------------------------------------------------------------
\* A session resumed on a record with four soft violations
\* ------------------------------------------------------------------------
Score55 == Str(<<"5", "5">>)

SoftIds == {rulesConfigFields[i].id : i \in {j \in 1..Len(rulesConfigFields) :
                                               rulesConfigFields[j].category = "soft"}}

\* a complete record in which every soft field breaks its rule
SoftViolationsFormData ==
  [x \in InputIds |->
     CASE x = "dob" -> DobOld
       [] x = "graduationYear" -> Year2030
       [] x = "scoreValue" -> Score55
       [] x = "screeningScore" -> ScreeningMinus5
       [] OTHER -> CompleteFormData(EmailB)[x]]

\* a complete record in which dob and graduationYear break their rules
TwoSoftViolationsFormData ==
  [x \in InputIds |->
     CASE x = "dob" -> DobOld
       [] x = "graduationYear" -> Year2030
       [] OTHER -> CompleteFormData(EmailB)[x]]

\* the records a saved session is resumed on
SavedSoftRecords == {SoftViolationsFormData, TwoSoftViolationsFormData}

\* the exception states a saved session holds for a soft field
SavedExceptionStates(id) ==
  {[active |-> TRUE, rationale |-> RationaleGood], [active |-> FALSE, rationale |-> <<>>]}

\* useState initialiser, a saved state with soft violations and exceptions
FlagInit ==
  /\ fields = rulesConfigFields
  /\ formData \in SavedSoftRecords
  /\ exceptions \in Maps(SoftIds, SavedExceptionStates)
  /\ auditLog = <<>>
  /\ currentView = "form"
  /\ theme = "light"
  /\ validationErrors = EmptyObject
  /\ isSubmitting = FALSE
  /\ showConfirmModal = FALSE
  /\ effectPending = TRUE
  /\ timer = NoTimer
  /\ nextId = 0
  /\ today = Today
  /\ ops = 0

FlagNext ==
  \/ ValidationEffect
  \/ \E id \in InputIds : toggleException(id)
  \/ OpenConfirmModal
  \/ CancelConfirmModal
  \/ handleSubmit
  \/ SubmitTimeout

SpecFlag == FlagInit /\ [][FlagNext]_vars

\* ------------------------------------------------------------------------
\* The exception gate over rationales of a soft field
\* ------------------------------------------------------------------------
\* 29 characters, holds the keyword "special case"
Rationale29 ==
  <<"s", "p", "e", "c", "i", "a", "l", " ", "c", "a", "s", "e", " ", "f", "o", "r", " ", "t",
    "h", "i", "s", " ", "s", "t", "u", "d", "e", "n", "t">>

\* 30 characters, holds the keyword "special case"
Rationale30 == Rationale29 \o <<".">>

\* 30 characters, no keyword
Rationale30Plain ==
  <<"t", "h", "e", " ", "c", "o", "m", "m", "i", "t", "t", "e", "e", " ", "a", "g", "r", "e",
    "e", "d", " ", "t", "o", " ", "e", "n", "r", "o", "l", "l">>

RationalePool ==
  {<<>>, <<"o", "k">>, RationaleShort, Rationale29, Rationale30, Rationale30Plain, RationaleGood}

RationaleExceptionStates(id) ==
  {[active |-> a, rationale |-> r] : a \in BOOLEAN, r \in RationalePool}

\* soft fields that differ in rationaleKeywords and rationaleMinLength
RationaleSchemas ==
  {<< FieldConfig("f1", "soft",
                  <<[Rule("minValue", "below the minimum") EXCEPT !.value = Num(40)]>>,
                  keywords, minLength),
      FieldConfig("f2", "strict", <<Rule("required", "f2 is required")>>, <<>>, Undefined) >> :
     keywords \in {<<>>, RationaleKeywords},
     minLength \in {Undefined, Num(0), Num(30), Num(35)}}

RationaleInit ==
  /\ fields \in RationaleSchemas
  /\ formData \in [{"f1", "f2"} -> {Num(0), Num(50), NameAl}]
  /\ formData["f2"] = NameAl
  /\ exceptions \in Maps({"f1"}, RationaleExceptionStates)
  /\ auditLog = <<>>
  /\ validationErrors = EmptyObject
  /\ currentView = "form"
  /\ theme = "light"
  /\ isSubmitting = FALSE
  /\ showConfirmModal = FALSE
  /\ effectPending = TRUE
  /\ timer = NoTimer
  /\ nextId = 0
  /\ today = Today
  /\ ops = 0

RationaleNext == ValidationEffect \/ OpenConfirmModal \/ CancelConfirmModal

SpecRationale == RationaleInit /\ [][RationaleNext]_vars

\* ------------------------------------------------------------------------
\* The validation effect over records of the shipped schema
\* ------------------------------------------------------------------------
DobMalformed == Str(<<"a", "b", "c">>)

DobNoSuchMonth == Str(<<"2", "0", "0", "0", "-", "1", "3", "-", "4", "5">>)

ShippedScoreValues ==
  { Str(<<"5">>), Str(<<"6">>), Str(<<"8">>), Str(<<"1", "0">>), Str(<<"1", "1">>), Score55,
    Str(<<"5", "9">>), Str(<<"6", "0">>), Str(<<"1", "5", "0">>), Num(8) }

\* a complete valid record but for the five given values; Undefined leaves
\* the key out of the record
ShippedRecord(scoreType, scoreValue, offerLetterSent, interviewStatus, dob) ==
  LET given(x) == CASE x = "scoreType" -> scoreType
                    [] x = "scoreValue" -> scoreValue
                    [] x = "offerLetterSent" -> offerLetterSent
                    [] x = "interviewStatus" -> interviewStatus
                    [] x = "dob" -> dob
                    [] OTHER -> CompleteFormData(EmailB)[x]
  IN  [x \in {y \in InputIds : given(y) # Undefined} |-> given(x)]

ShippedRecords ==
  { ShippedRecord(scoreType, scoreValue, offerLetterSent, interviewStatus, dob) :
      scoreType \in {Percentage, Cgpa, Undefined},
      scoreValue \in ShippedScoreValues,
      offerLetterSent \in {Bool(TRUE), Bool(FALSE)},
      interviewStatus \in {Cleared, Waitlisted, Rejected, EmptyString, Undefined},
      dob \in {DobOk, DobMalformed, DobNoSuchMonth} }

ShippedInit ==
  /\ fields = rulesConfigFields
  /\ formData \in ShippedRecords
  /\ exceptions = EmptyObject
  /\ auditLog = <<>>
  /\ validationErrors = EmptyObject
  /\ currentView = "form"
  /\ theme = "light"
  /\ isSubmitting = FALSE
  /\ showConfirmModal = FALSE
  /\ effectPending = TRUE
  /\ timer = NoTimer
  /\ nextId = 0
  /\ today = Today
  /\ ops = 0

ShippedNext == ValidationEffect \/ OpenConfirmModal \/ CancelConfirmModal

SpecShipped == ShippedInit /\ [][ShippedNext]_vars

\* ------------------------------------------------------------------------
\* The validation effect while the calendar advances
\* ------------------------------------------------------------------------
\* the number of midnights a session lasts through
MaxDays == 2

\* birthdays around the 18th and the 36th on the date of the session
Dob18Today == Str(<<"2", "0", "0", "8", "-", "0", "6", "-", "1", "5">>)

Dob18Tomorrow == Str(<<"2", "0", "0", "8", "-", "0", "6", "-", "1", "6">>)

Dob36Today == Str(<<"1", "9", "9", "0", "-", "0", "6", "-", "1", "5">>)

Dob36Tomorrow == Str(<<"1", "9", "9", "0", "-", "0", "6", "-", "1", "6">>)

ClockDobs == {DobOk, DobOld, Dob18Today, Dob18Tomorrow, Dob36Today, Dob36Tomorrow, EmptyString}

\* the day after the date
NextDay(date) ==
  IF date.d < DaysInMonth(date.y, date.m) THEN Date(date.y, date.m, date.d + 1)
  ELSE IF date.m < 12 THEN Date(date.y, date.m + 1, 1)
  ELSE Date(date.y + 1, 1, 1)

\* the days between the start of the session and the date (within a month)
DaysInto(date) == IF date.m = Today.m THEN date.d - Today.d ELSE MaxDays

ClockInit ==
  /\ fields = rulesConfigFields
  /\ formData \in { ShippedRecord(scoreType, Score75, Bool(FALSE), interviewStatus, dob) :
                      scoreType \in {Percentage, Cgpa},
                      interviewStatus \in {Cleared, Waitlisted, Rejected},
                      dob \in ClockDobs }
  /\ exceptions = EmptyObject
  /\ auditLog = <<>>
  /\ validationErrors = EmptyObject
  /\ currentView = "form"
  /\ theme = "light"
  /\ isSubmitting = FALSE
  /\ showConfirmModal = FALSE
  /\ effectPending = TRUE
  /\ timer = NoTimer
  /\ nextId = 0
  /\ today = Today
  /\ ops = 0

\* midnight passes: new Date() returns the next day from now on; no state of
\* the component changes, so no effect is scheduled
Midnight ==
  /\ DaysInto(today) < MaxDays
  /\ today' = NextDay(today)
  /\ UNCHANGED <<fields, formData, exceptions, auditLog, currentView, theme, validationErrors,
                 isSubmitting, showConfirmModal, effectPending, timer, nextId, ops>>

ClockNext == ValidationEffect \/ Midnight \/ OpenConfirmModal \/ CancelConfirmModal

SpecClock == ClockInit /\ [][ClockNext]_vars

\* ------------------------------------------------------------------------
\* The validation effect over fields with an ageRange rule
\* ------------------------------------------------------------------------
AgeRangeRule(min, max) ==
  [Rule("ageRange", "age out of range") EXCEPT !.min = min, !.max = max]

\* the shipped bounds, bounds that meet, and bounds of zero
AgeRangeRules ==
  { AgeRangeRule(Num(18), Num(35)), AgeRangeRule(Num(26), Num(26)),
    AgeRangeRule(Num(0), Num(17)), AgeRangeRule(Num(0), Num(0)) }

\* born this year: age 0
DobInfant == Str(<<"2", "0", "2", "6", "-", "0", "1", "-", "0", "1">>)

AgeValues == ClockDobs \cup {DobInfant, Null}

AgeSchemas ==
  {<< FieldConfig("f1", category, rules,
                  IF category = "soft" THEN RationaleKeywords ELSE <<>>,
                  IF category = "soft" THEN Num(30) ELSE Undefined),
      FieldConfig("f2", "strict", <<Rule("required", "f2 is required")>>, <<>>, Undefined) >> :
     category \in {"strict", "soft"},
     rules \in {<<r>> : r \in AgeRangeRules}
               \cup {<<Rule("required", "f1 is required"), r>> : r \in AgeRangeRules}}

AgeInit ==
  /\ fields \in AgeSchemas
  /\ formData \in Maps({"f1", "f2"}, LAMBDA id : IF id = "f1" THEN AgeValues ELSE {NameAl})
  /\ "f2" \in DOMAIN formData
  /\ exceptions = EmptyObject
  /\ auditLog = <<>>
  /\ validationErrors = EmptyObject
  /\ currentView = "form"
  /\ theme = "light"
  /\ isSubmitting = FALSE
  /\ showConfirmModal = FALSE
  /\ effectPending = TRUE
  /\ timer = NoTimer
  /\ nextId = 0
  /\ today = Today
  /\ ops = 0

AgeNext == ValidationEffect \/ OpenConfirmModal \/ CancelConfirmModal

SpecAge == AgeInit /\ [][AgeNext]_vars

\* ------------------------------------------------------------------------
\* Claims
\* ------------------------------------------------------------------------
HasRequiredRule(field) ==
  \E r \in 1..Len(field.validations) : field.validations[r].type = "required"

\* the value is none of undefined, null and ''
Filled(val) == val # Undefined /\ val # Null /\ val # EmptyString

\* the exception map holds an active exception for the field whose rationale
\* passes checkRationale
Justified(excs, field) ==
  /\ field.id \in DOMAIN excs
  /\ excs[field.id].active
  /\ checkRationale(field, excs[field.id].rationale).valid

\* a record fit for the audit log, judged against the log `log` on the date `now`
Admissible(record, excs, log, now) ==
  \A i \in 1..Len(rulesConfigFields) :
    LET field == rulesConfigFields[i]
        verdict == validateField(field, Get(record, field.id), record, log, now)
    IN  /\ field.category = "strict" => verdict.valid
        /\ HasRequiredRule(field) => Filled(Get(record, field.id))
        /\ (field.category = "soft" /\ ~verdict.valid) => Justified(excs, field)

BlockingFailure(i) ==
  LET field == fields[i]
      id == field.id
  IN  /\ id \in DOMAIN validationErrors
      /\ ~validationErrors[id].valid
      /\ \/ field.category = "strict"
         \/ validationErrors[id].blockSubmission
         \/ field.category = "soft" /\ ~Justified(exceptions, field)

\* C2: the gate reports a blocking failure exactly when some field's verdict
\* is invalid and the field is strict, or the verdict has blockSubmission, or
\* the field is soft without an active exception whose rationale passes.
C2_BlockingFailureExact ==
  hasStrictErrors <=> \E i \in 1..Len(fields) : BlockingFailure(i)

\* blocked only because the active exception of a soft field has a poor rationale
C2_Witness ==
  /\ hasStrictErrors
  /\ DOMAIN validationErrors = {"f1"}
  /\ fields[1].category = "soft"
  /\ ~validationErrors["f1"].blockSubmission
  /\ IsActive(exceptions, "f1")

\* C3: canSubmit is true exactly when there is no blocking failure and no
\* field with a required rule holds undefined, null or ''; the latter is read
\* off the record alone, so a required field holding false or 0 is not missing.
C3_CanSubmitExact ==
  canSubmit <=>
    /\ ~\E i \in 1..Len(fields) : BlockingFailure(i)
    /\ \A i \in 1..Len(fields) :
         HasRequiredRule(fields[i]) => Filled(Get(formData, fields[i].id))

\* the gate let a record through whose required field holds false
C3_Witness ==
  /\ showConfirmModal
  /\ HasRequiredRule(fields[1])
  /\ Get(formData, "f1") = Bool(FALSE)

\* C4: an invalid verdict of a strict field makes canSubmit false, whatever
\* the exception map holds.
C4_StrictFailureBlocks ==
  \A i \in 1..Len(fields) :
    (/\ fields[i].category = "strict"
     /\ fields[i].id \in DOMAIN validationErrors
     /\ ~validationErrors[fields[i].id].valid) => ~canSubmit

\* a strict failure under whose id an active exception with a passing
\* rationale is recorded, and nothing else stands in the way
C4_Witness ==
  /\ fields[1].category = "strict"
  /\ DOMAIN validationErrors = {"f1"}
  /\ ~validationErrors["f1"].blockSubmission
  /\ Justified(exceptions, fields[1])
  /\ \A i \in 1..Len(fields) : HasRequiredRule(fields[i]) => Filled(Get(formData, fields[i].id))
  /\ ~canSubmit

\* the soft field i has an invalid verdict and a justified exception, and
\* every other field is valid and filled
SoftOverride(i) ==
  /\ fields[i].category = "soft"
  /\ fields[i].id \in DOMAIN validationErrors
  /\ ~validationErrors[fields[i].id].valid
  /\ Justified(exceptions, fields[i])
  /\ \A j \in 1..Len(fields) :
       j # i => /\ fields[j].id \notin DOMAIN validationErrors
                /\ Filled(Get(formData, fields[j].id))

\* C5 (as stated): once the verdicts are computed, an invalid soft field
\* (whichever rule failed, required included) with an active exception whose
\* rationale passes, all other fields being valid and filled, gives canSubmit.
C5_SoftOverrideAlways ==
  Idle => \A i \in 1..Len(fields) : SoftOverride(i) => canSubmit

\* C5 (amended): the same, unless the verdict carries blockSubmission or the
\* field has a required rule and holds undefined, null or ''.
C5_SoftOverride ==
  Idle => \A i \in 1..Len(fields) :
            (/\ SoftOverride(i)
             /\ ~validationErrors[fields[i].id].blockSubmission
             /\ HasRequiredRule(fields[i]) => Filled(Get(formData, fields[i].id)))
            => canSubmit

\* the gate let through a soft field that fails its required rule with false
C5_Witness ==
  /\ showConfirmModal
  /\ SoftOverride(1)
  /\ HasRequiredRule(fields[1])
  /\ Get(formData, "f1") = Bool(FALSE)

F1Outcome(r) ==
  RuleOutcome(fields[1].validations[r], fields[1], Get(formData, "f1"), formData,
              auditLog, today)

\* the r-th rule of f1 is its first failing rule
F1FirstFailing(r) ==
  /\ r \in 1..Len(fields[1].validations)
  /\ F1Outcome(r).fails
  /\ \A q \in 1..(r - 1) : ~F1Outcome(q).fails

\* C7: when a rule with blockSubmission is the first failing rule of a field,
\* the verdict carries blockSubmission and canSubmit is false, even for a soft
\* field with an active exception whose rationale passes.
C7_BlockSubmissionAnyRule ==
  Idle => \A r \in 1..Len(fields[1].validations) :
            (F1FirstFailing(r) /\ fields[1].validations[r].blockSubmission)
            => /\ "f1" \in DOMAIN validationErrors
               /\ validationErrors["f1"].blockSubmission
               /\ ~canSubmit

\* C8: the verdict is invalid exactly when some rule fails, and then its
\* message is the one the first failing rule in list order yields; no later
\* rule's message is returned.
C8_FirstFailureWins ==
  Idle => /\ ("f1" \in DOMAIN validationErrors)
             <=> \E r \in 1..Len(fields[1].validations) : F1Outcome(r).fails
          /\ \A r \in 1..Len(fields[1].validations) :
               F1FirstFailing(r) => validationErrors["f1"].error = F1Outcome(r).error

\* rules [required, minLength] on an empty string: both fail, required reported
C8_Witness ==
  /\ Idle
  /\ Len(fields[1].validations) = 2
  /\ fields[1].validations[1].type = "required"
  /\ fields[1].validations[2].type = "minLength"
  /\ Get(formData, "f1") = EmptyString
  /\ F1Outcome(2).fails
  /\ validationErrors["f1"].error = "f1 is required"

\* the rule makes a numeric check on the value in the record allData
NumericCheck(rule, allData) ==
  \/ rule.type \in {"range", "minValue"}
  \/ /\ rule.type = "conditional"
     /\ rule.hasConditions
     /\ \E c \in 1..Len(rule.conditions) :
          LET cond == rule.conditions[c]
          IN  /\ \/ cond.is # Undefined /\ StrictEquals(Get(allData, cond.when), cond.is)
                 \/ cond.hasIn /\ Includes(cond.in, Get(allData, cond.when))
              /\ (cond.min # Undefined \/ cond.max # Undefined)

\* C9: a value whose numeric coercion is not-a-number fails every range rule,
\* every minValue rule and every applicable conditional min/max check, so the
\* verdict of a field with such a rule is invalid.
C9_NumericChecksFailClosed ==
  Idle => (ToNumber(Get(formData, "f1")) = NaN =>
             /\ \A r \in 1..Len(fields[1].validations) :
                  NumericCheck(fields[1].validations[r], formData) => F1Outcome(r).fails
             /\ (\E r \in 1..Len(fields[1].validations) :
                   NumericCheck(fields[1].validations[r], formData))
                => "f1" \in DOMAIN validationErrors)

\* C10: a range rule fails exactly when the numeric value is below its min or
\* above its max, a bound of 0 included; an absent bound is unbounded.
C10_RangeExact ==
  Idle => \A r \in 1..Len(fields[1].validations) :
            LET rule == fields[1].validations[r]
                n == ToNumber(Get(formData, "f1"))
            IN  (rule.type = "range" /\ n.t = "number" /\ n.k = "fin")
                => (F1Outcome(r).fails
                    <=> \/ rule.min # Undefined /\ n.n < rule.min.n
                        \/ rule.max # Undefined /\ n.n > rule.max.n)

\* some entry of the log holds a value strictly equal to f1's under the id f1
F1Logged ==
  \E i \in 1..Len(auditLog) :
    StrictEquals(Get(auditLog[i].formData, "f1"), Get(formData, "f1"))

\* C11: a unique rule with checkStorage, reached by a value of any type that
\* the record holds and that passes the earlier rules, fails exactly when some history entry holds a
\* strictly equal value under the same field id, and the verdict is invalid
\* exactly then; without checkStorage the rule never fails.
C11_UniqueExact ==
  Idle => \A r \in 1..Len(fields[1].validations) :
            LET rule == fields[1].validations[r]
            IN  (/\ rule.type = "unique"
                 /\ "f1" \in DOMAIN formData
                 /\ \A q \in 1..(r - 1) : ~F1Outcome(q).fails)
                => /\ F1Outcome(r).fails <=> (rule.checkStorage /\ F1Logged)
                   /\ (r = Len(fields[1].validations))
                      => (("f1" \in DOMAIN validationErrors) <=> (rule.checkStorage /\ F1Logged))

\* the number of exceptions with active = true
ActiveCount == Cardinality({id \in DOMAIN exceptions : exceptions[id].active})

\* C12: isFlagged is true exactly when more than maxExceptions exceptions are
\* active: with maxExceptions = 2, none to two active exceptions are not
\* flagged and three or more are.
C12_FlagThreshold ==
  /\ maxExceptions = 2
  /\ ActiveCount \in 0..2 => ~isFlagged
  /\ ActiveCount >= 3 => isFlagged

\* a toggle brought the active exceptions from two to three
C12_Witness == ops > 0 /\ ActiveCount = 3 /\ isFlagged

\* the rationale passes the exception gate of the field, as specified
RationaleAccepted(field, rationale) ==
  LET minimum == IF field.rationaleMinLength = Undefined THEN 30
                 ELSE field.rationaleMinLength.n
  IN  /\ Len(rationale) > 0
      /\ Len(rationale) >= minimum
      /\ Len(field.rationaleKeywords) > 0
         => \E k \in 1..Len(field.rationaleKeywords) :
              Contains(ToLowerCase(rationale), ToLowerCase(field.rationaleKeywords[k]))

\* C13: checkRationale is invalid for an empty rationale or one shorter than
\* rationaleMinLength (30 when unset); otherwise, with keywords configured, it
\* is valid exactly when the lower-cased rationale contains a lower-cased
\* keyword, and without keywords it is valid.
C13_RationaleGate ==
  (Idle /\ IsActive(exceptions, "f1"))
  => (checkRationale(fields[1], exceptions["f1"].rationale).valid
      <=> RationaleAccepted(fields[1], exceptions["f1"].rationale))

\* C14: for the shipped scoreValue field holding a non-empty numeric value v,
\* the verdict is invalid exactly when scoreType is "percentage" and v < 60,
\* or scoreType is "cgpa" and v < 6 or v > 10; the condition of the other
\* scoreType is not applied.
C14_ScoreByType ==
  LET v == ToNumber(Get(formData, "scoreValue"))
      scoreType == Get(formData, "scoreType")
  IN  (Idle /\ fields = rulesConfigFields /\ Filled(Get(formData, "scoreValue"))
       /\ v.t = "number" /\ v.k = "fin")
      => (("scoreValue" \in DOMAIN validationErrors)
          <=> \/ scoreType = Percentage /\ v.n < 60
              \/ scoreType = Cgpa /\ (v.n < 6 \/ v.n > 10))

\* 8 is accepted on the cgpa scale, and the record passes the gate
C14_Witness ==
  /\ showConfirmModal
  /\ Get(formData, "scoreType") = Cgpa
  /\ Get(formData, "scoreValue") = Str(<<"8">>)

\* C15: a sub-condition that applies and names a required field fails unless
\* the record's value of that field is in its `in` list: for the shipped
\* offerLetterSent field, true is invalid exactly when interviewStatus is
\* neither "Cleared" nor "Waitlisted" (unset included), and false is valid.
C15_OfferNeedsInterview ==
  (Idle /\ fields = rulesConfigFields)
  => (("offerLetterSent" \in DOMAIN validationErrors)
      <=> /\ Get(formData, "offerLetterSent") = Bool(TRUE)
          /\ Get(formData, "interviewStatus") \notin {Cleared, Waitlisted})

\* an offer letter marked as sent while interviewStatus is unset
C15_Witness ==
  /\ Idle
  /\ Get(formData, "offerLetterSent") = Bool(TRUE)
  /\ "interviewStatus" \notin DOMAIN formData
  /\ "offerLetterSent" \in DOMAIN validationErrors

\* the verdicts validateField returns for the fields of the current record
\* when new Date() is `now`
VerdictsOn(now) ==
  [i \in 1..Len(fields) |->
     validateField(fields[i], Get(formData, fields[i].id), formData, auditLog, now)]

\* C16: two calls of validateField with the same field, value, record and
\* history return the same verdict, for every rule kind, ageRange included:
\* across any step that leaves the four arguments alone the verdicts stay.
C16_VerdictsDeterministic ==
  [][(fields' = fields /\ formData' = formData /\ auditLog' = auditLog)
       => VerdictsOn(today') = VerdictsOn(today)]_vars

\* C17: for every field of the shipped schema and every value, validateField
\* returns a verdict, and a verdict with valid = false carries an error
\* message that is neither undefined nor null nor empty.
C17_InvalidVerdictHasMessage ==
  (Idle /\ fields = rulesConfigFields)
  => \A id \in DOMAIN validationErrors :
       ~validationErrors[id].valid
       => validationErrors[id].error \notin {MsgUndefined, MsgNull, ""}

\* C18: for the shipped dob field, a non-empty value that does not denote a
\* valid calendar date yields a verdict with valid = false.
C18_MalformedDateRejected ==
  LET dob == Get(formData, "dob")
  IN  (Idle /\ fields = rulesConfigFields /\ dob.t = "string" /\ dob # EmptyString
       /\ ~ParseDate(dob.s).ok)
      => "dob" \in DOMAIN validationErrors

\* the completed years from the date the text denotes to the date `now`
WholeYearsAge(chars, now) ==
  LET born == ParseDate(chars)
      before == now.m < born.m \/ (now.m = born.m /\ now.d < born.d)
  IN  now.y - born.y - (IF before THEN 1 ELSE 0)

\* C19: an ageRange rule with bounds [min, max] fails exactly when the
\* whole-years age of the value's date on today's date is below min or above
\* max, so ages equal to a bound pass; undefined, null and '' never fail it.
C19_AgeRangeExact ==
  Idle => \A r \in 1..Len(fields[1].validations) :
            LET rule == fields[1].validations[r]
                value == Get(formData, "f1")
            IN  rule.type = "ageRange"
                => /\ ~Filled(value) => ~F1Outcome(r).fails
                   /\ (value.t = "string" /\ ParseDate(value.s).ok)
                      => (F1Outcome(r).fails
                          <=> \/ WholeYearsAge(value.s, today) < rule.min.n
                              \/ WholeYearsAge(value.s, today) > rule.max.n)

\* C20: a required rule fails exactly when the value is undefined, null, ''
\* or false; 0, true and non-empty strings pass it.
C20_RequiredExact ==
  Idle => \A r \in 1..Len(fields[1].validations) :
            fields[1].validations[r].type = "required"
            => /\ F1Outcome(r).fails
                  <=> Get(formData, "f1") \in {Undefined, Null, EmptyString, Bool(FALSE)}
               /\ Len(fields[1].validations) = 1
                  => (("f1" \in DOMAIN validationErrors)
                      <=> Get(formData, "f1") \in {Undefined, Null, EmptyString, Bool(FALSE)})

\* a field whose only rule is required holds 0 and passes the gate
C20_Witness ==
  /\ showConfirmModal
  /\ Len(fields[1].validations) = 1
  /\ fields[1].validations[1].type = "required"
  /\ Get(formData, "f1") = Num(0)

\* the step runs the validation effect (validateField on every field)
EffectStep == effectPending /\ ~effectPending'

\* the step passes the gate (canSubmit, and checkRationale within it)
GateStep == ~showConfirmModal /\ showConfirmModal'

\* C21: validateField, checkRationale and canSubmit leave the record, the
\* exception map and the audit log as they are: a step that only evaluates
\* them changes none of the three.
C21_EvaluationFrame ==
  [][(EffectStep \/ GateStep) => UNCHANGED <<formData, exceptions, auditLog>>]_vars

\* the gate was passed on a record with a justified exception, after the
\* effect had reported the soft failure
C21_Witness ==
  /\ showConfirmModal
  /\ validationErrors # EmptyObject
  /\ \E id \in DOMAIN exceptions : exceptions[id].active

\* the log `after` is the log `before` with one entry taken out
OneRemoved(before, after) ==
  \E k \in 1..Len(before) :
    after = SubSeq(before, 1, k - 1) \o SubSeq(before, k + 1, Len(before))

\* C22: entries are never modified once appended: a confirmed submission
\* prepends one entry and keeps the others in order; the only other changes
\* of the log are the removal of the entry with the deleted id and the
\* clearing of the log, both made from the audit view; edits, toggles,
\* rationale edits, view and theme changes leave the log alone.
C22_LogAppendOnly ==
  [][/\ (timer.set /\ ~timer'.set)
        => (Len(auditLog') = Len(auditLog) + 1 /\ Tail(auditLog') = auditLog)
     /\ (~(timer.set /\ ~timer'.set) /\ auditLog' # auditLog)
        => /\ currentView = "audit"
           /\ (auditLog' = <<>> \/ OneRemoved(auditLog, auditLog'))
           /\ \A i \in 1..Len(auditLog), j \in 1..Len(auditLog) :
                i # j => auditLog[i].id # auditLog[j].id
     /\ (\/ ops' # ops
         \/ theme' # theme
         \/ (formData' # formData /\ timer' = timer)
         \/ (exceptions' # exceptions /\ timer' = timer)
         \/ EffectStep
         \/ GateStep)
        => auditLog' = auditLog]_vars

\* two entries had been logged and one of them was deleted
C22_Witness == nextId = 2 /\ Len(auditLog) = 1 /\ auditLog[1].id = 0

\* C23: for a schema without soft fields no verdict has isSoft = true, and
\* canSubmit does not depend on the exception map: it is true exactly when
\* every verdict is valid and no required field is undefined, null or ''.
C23_NoSoftFields ==
  (Idle /\ \A i \in 1..Len(fields) : fields[i].category # "soft")
  => /\ \A i \in 1..Len(fields) : ~VerdictsOn(today)[i].isSoft
     /\ \A id \in DOMAIN validationErrors : ~validationErrors[id].isSoft
     /\ canSubmit
        <=> /\ validationErrors = EmptyObject
            /\ \A i \in 1..Len(fields) :
                 HasRequiredRule(fields[i]) => Filled(Get(formData, fields[i].id))

\* a strict-only schema whose failing field has an active exception with a
\* passing rationale recorded under its id
C23_Witness ==
  /\ Idle
  /\ \A i \in 1..Len(fields) : fields[i].category # "soft"
  /\ DOMAIN validationErrors = {"f1"}
  /\ Justified(exceptions, fields[1])
  /\ Filled(Get(formData, "f1"))
  /\ ~canSubmit

\* C24: a conditional rule without a conditions list never fails: the rule
\* passes for every value and record, and the verdict is that of the field's
\* other rules.
C24_NoConditionsPasses ==
  Idle => \A r \in 1..Len(fields[1].validations) :
            (fields[1].validations[r].type = "conditional"
             /\ ~fields[1].validations[r].hasConditions)
            => /\ ~F1Outcome(r).fails
               /\ ("f1" \in DOMAIN validationErrors)
                  <=> \E q \in 1..Len(fields[1].validations) : q # r /\ F1Outcome(q).fails
               /\ \A q \in 1..Len(fields[1].validations) :
                    (q > r /\ F1FirstFailing(q))
                    => validationErrors["f1"].error = F1Outcome(q).error

\* the rule after a conditional rule without conditions is evaluated and fails
C24_Witness ==
  /\ Idle
  /\ Len(fields[1].validations) = 2
  /\ fields[1].validations[1].type = "conditional"
  /\ ~fields[1].validations[1].hasConditions
  /\ F1Outcome(2).fails
  /\ validationErrors["f1"].error = F1Outcome(2).error

\* C25: with the record at its defaults and no exceptions, as in the initial
\* state and right after a confirmed submission, canSubmit is false, also
\* while the validation effect has not run and validationErrors is empty or
\* left over from the previous record.
C25_DefaultsNeverSubmittable ==
  (/\ fields = rulesConfigFields
   /\ formData = [scoreType |-> Percentage, offerLetterSent |-> Bool(FALSE)]
   /\ exceptions = EmptyObject)
  => ~canSubmit

\* right after a submission in this session, before the effect has run
C25_Witness ==
  /\ formData = [scoreType |-> Percentage, offerLetterSent |-> Bool(FALSE)]
  /\ exceptions = EmptyObject
  /\ effectPending
  /\ nextId = 2
  /\ Len(auditLog) = 2
  /\ validationErrors # ComputedErrors

\* C26: in every reachable state, the states between an edit and the
\* validation effect that follows it included, canSubmit is false whenever
\* the current record holds a strict-field value that validateField rejects.
C26_StrictRejectionBlocksAlways ==
  (\E i \in 1..Len(fields) :
     fields[i].category = "strict" /\ ~VerdictsOn(today)[i].valid)
  => ~canSubmit

SoftFailing(entry) ==
  {i \in 1..Len(fields) :
     /\ fields[i].category = "soft"
     /\ ~validateField(fields[i], Get(entry.formData, fields[i].id), entry.formData,
                       auditLog, entry.timestamp).valid}

\* C28: in every audit-log entry each exception recorded as active belongs to
\* a soft field whose logged value fails validation and carries a rationale
\* that passes checkRationale; exceptionCount counts only such overrides and
\* a flagged entry has more than maxExceptions soft fields failing.
C28_LoggedExceptionsJustified ==
  \A k \in 1..Len(auditLog) :
    LET entry == auditLog[k]
        real == {i \in SoftFailing(entry) : Justified(entry.exceptions, fields[i])}
    IN  /\ \A id \in DOMAIN entry.exceptions :
             entry.exceptions[id].active => \E i \in real : fields[i].id = id
        /\ entry.exceptionCount = Cardinality(real)
        /\ entry.isFlagged => Cardinality(SoftFailing(entry)) > maxExceptions

\* C29: the exception map, empty at the start, has keys only for soft fields
\* of the schema in every reachable state, since a step that adds or changes
\* an exception does so for one soft field that has a validation error; hence
\* the number of active exceptions never exceeds the number of soft fields,
\* which is 4.
C29_ExceptionKeysSoft ==
  /\ [](/\ \A id \in DOMAIN exceptions : HasField(id) /\ FindField(id).category = "soft"
        /\ Cardinality(SoftIds) = 4
        /\ activeExceptionsCount <= Cardinality(SoftIds))
  /\ [][(exceptions' # exceptions /\ exceptions' # EmptyObject) =>
          \E id \in DOMAIN validationErrors :
            /\ HasField(id) /\ FindField(id).category = "soft"
            /\ DOMAIN exceptions' = DOMAIN exceptions \cup {id}
            /\ \A x \in DOMAIN exceptions \ {id} : exceptions'[x] = exceptions[x]]_vars

\* three exceptions were toggled on in a session that began with none
C29_Witness == ops = 3 /\ activeExceptionsCount = 3

\* the counters of a logged entry agree with its own exceptions snapshot
EntryConsistent(entry) ==
  /\ entry.exceptionCount =
       Cardinality({id \in DOMAIN entry.exceptions : entry.exceptions[id].active})
  /\ entry.isFlagged = (entry.exceptionCount > maxExceptions)

\* C30: every audit-log entry is internally consistent: exceptionCount is the
\* number of active exceptions in its own snapshot and isFlagged is
\* exceptionCount > maxExceptions; the pending submission holds formData and
\* exceptions as they were when it was confirmed, the entry it logs holds the
\* same, and the step that logs it resets the live formData to the defaults
\* and empties the live exception map.
C30_EntryConsistent ==
  /\ [](\A k \in 1..Len(auditLog) : EntryConsistent(auditLog[k]))
  /\ [][/\ (~timer.set /\ timer'.set) =>
             /\ timer'.formData = formData
             /\ timer'.exceptions = exceptions
        /\ (timer.set /\ ~timer'.set) =>
             /\ Len(auditLog') = Len(auditLog) + 1
             /\ auditLog'[1].formData = timer.formData
             /\ auditLog'[1].exceptions = timer.exceptions
             /\ formData' = DefaultFormData
             /\ exceptions' = EmptyObject]_vars

\* a flagged entry with three active exceptions and one inactive was logged
\* and the form was reset
C30_Witness ==
  /\ Len(auditLog) = 1
  /\ auditLog[1].isFlagged
  /\ auditLog[1].exceptionCount = 3
  /\ Cardinality(DOMAIN auditLog[1].exceptions) = 4
  /\ formData = DefaultFormData
  /\ exceptions = EmptyObject

====
